---- MODULE Spec2Model ----
(***************************************************************************)
(* Memory-mapped vector storage (MemmapVectorStorage) of the segment       *)
(* library: two append-only files (matrix.dat, deleted.dat), the cached    *)
(* MmapVectors view over them, and the storage operations of the           *)
(* VectorStorage trait as implemented in memmap_vector_storage.rs.         *)
(***************************************************************************)
EXTENDS Integers, Sequences, FiniteSets, TLC

(* ------------------------------ bounds --------------------------------- *)
\* largest number of slots (live + deleted) the model lets a storage grow to
MaxSlots == 3
\* largest number of slots of a source storage handed to update_from
MaxOther == 2
\* longest candidate list handed to score_points / score_internal
MaxCand == 2
\* largest `top` handed to the scoring calls
MaxTop == 2

(* --------------------------- value domains ----------------------------- *)
\* vector elements (f32 values 0.0 and 1.0, as in the tests' vectors)
Elem == {0, 1}
\* dimensions a storage can be opened with
Dims == {1, 2}
\* size_of::<VectorElementType>() : an f32 is four bytes
ElementSize == 4

\* the vectors the model stores and queries with: both one-element vectors,
\* and for a longer dimension the unit vector [1,0,..] and the all-ones vector
\* (vec5 and vec3 of the tests)
VectorsOfDim(d) ==
    IF d = 1 THEN [1..d -> Elem]
    ELSE {[j \in 1..d |-> IF j = 1 THEN 1 ELSE 0], [j \in 1..d |-> 1]}

SeqsUpTo(S, n) == UNION {[1..m -> S] : m \in 0..n}

\* a source storage behind `other: &dyn VectorStorage`: its dimension, its
\* slots and their deletion flags
Sources ==
    UNION {{[dim |-> d, vectors |-> vs, deleted |-> fl] :
              vs \in [1..m -> VectorsOfDim(d)], fl \in [1..m -> BOOLEAN]} :
           d \in Dims, m \in 0..MaxOther}

None == [some |-> FALSE]
Some(x) == [some |-> TRUE, val |-> x]

Ok(v) == [kind |-> "Ok", val |-> v]
Err(e) == [kind |-> "Err", val |-> e]
Panic == [kind |-> "Panic", val |-> "panic"]

(* ------------------------- byte-level helpers -------------------------- *)
RECURSIVE Flatten(_)
Flatten(ss) == IF ss = <<>> THEN <<>> ELSE Head(ss) \o Flatten(Tail(ss))

\* little-endian IEEE-754 single precision image of an element
f32_bytes(e) == IF e = 1 THEN <<0, 0, 128, 63>> ELSE <<0, 0, 0, 0>>

\* the value a four-byte group reads back as (2 stands for any other pattern)
bytes_f32(b) ==
    IF b = <<0, 0, 128, 63>> THEN 1 ELSE IF b = <<0, 0, 0, 0>> THEN 0 ELSE 2

\* vf_to_u8 on a Vec<f32>: the vector's memory image, v.len() * 4 bytes
vf_to_u8(v) == Flatten([i \in 1..Len(v) |-> f32_bytes(v[i])])

RECURSIVE SumSeq(_)
SumSeq(s) == IF s = <<>> THEN 0 ELSE Head(s) + SumSeq(Tail(s))

(* ------------------------------- state --------------------------------- *)
VARIABLES
    matrix_dat,   \* bytes of the vectors file (vectors_path)
    deleted_dat,  \* bytes of the deleted file (deleted_path)
    open_dim,     \* the dimension the directory is opened with
    alive,        \* a MemmapVectorStorage instance exists
    mmap_store,   \* its Option<MmapVectors>: None or Some([dim, num_vectors, deleted_count])
    aborted,      \* a panic has unwound the caller
    lastOp,       \* the call that has just returned and its arguments, or Idle
    result,       \* what that call returned
    synced,       \* history: flush has succeeded on the map since the last mutation
    appended,     \* history: slots appended by update_from (flags written)
    stored,       \* history: the vector each appended slot was given
    tombstones,   \* history: offsets a delete call has succeeded on
    redelete,     \* history: the call that has just returned is a successful
                  \* delete of an offset a delete had succeeded on before
    scorer,       \* the MemmapRawScorer borrowed from the storage: None or Some([query])
    filtered_scorer, \* the FilteredScorer around it: None or Some([filter]), filter
                  \* being None or Some(the offsets condition_checker.check accepts)
    iter_pc,      \* the iterator score_points returned: "none", "idle" (nobody
                  \* asks), "next" (a next() is running), "done", "dropped"
    pulled,       \* history: the candidates taken from the points iterator
    checked,      \* history: the offsets condition_checker.check was called with
    seen,         \* history: the offsets the raw scorer's filter closure was called with
    emitted,      \* history: the ScoredPointOffsets handed to the consumer / the sink
    frame,        \* the update_from call in progress, step by step: its position
                  \* and locals, or NoFrame
    rw_lock,      \* the caller's read-write lock: "free" or "writer"
    torn,         \* history: the lock scopes under which a reader has met the
                  \* storage unmapped or with more records than flags
    ids_history   \* history of the iter_ids calls: "never" called, "called",
                  \* "mutated" (a delete or update_from has succeeded since the
                  \* last call), "again" (the call that has just returned came
                  \* after such a mutation)

vars == <<matrix_dat, deleted_dat, open_dim, alive, mmap_store, aborted,
          lastOp, result, synced, appended, stored, tombstones, redelete,
          scorer, filtered_scorer, iter_pc, pulled, checked, seen, emitted,
          frame, rw_lock, torn, ids_history>>

files == <<matrix_dat, deleted_dat>>
history == <<appended, stored, tombstones, ids_history>>
scoring == <<scorer, filtered_scorer, iter_pc, pulled, checked, seen, emitted>>
locking == <<frame, rw_lock, torn>>

(* ------------------------ MmapVectors (mapped table) ------------------- *)
\* number of set flags among the first n bytes of the deleted file
CountSet(del, n) == Cardinality({i \in 1..n : del[i] # 0})

\* MmapVectors::open: map both files, recompute num_vectors from the file
\* length and deleted_count from the flags; inconsistent lengths are a
\* corruption failure
MmapVectors_open(vec, del, dim) ==
    LET record_size == dim * ElementSize IN
    IF Len(vec) % record_size # 0 \/ Len(del) # Len(vec) \div record_size
    THEN Err("Corruption")
    ELSE Ok([dim |-> dim,
             num_vectors |-> Len(vec) \div record_size,
             deleted_count |-> CountSet(del, Len(del))])

\* MmapVectors::deleted(key): Option<bool>, None when out of range
MmapVectors_deleted(store, del, key) ==
    IF key < store.num_vectors THEN Some(del[key + 1] # 0) ELSE None

\* MmapVectors::raw_vector(key): the dim floats at key * record_size
MmapVectors_raw_vector(store, vec, key) ==
    IF key < store.num_vectors
    THEN Some([j \in 1..store.dim |->
                 bytes_f32(SubSeq(vec,
                     (key * store.dim + j - 1) * ElementSize + 1,
                     (key * store.dim + j) * ElementSize))])
    ELSE None

\* MmapVectors::get_vector(key): a copy of raw_vector(key)
MmapVectors_get_vector(store, vec, key) == MmapVectors_raw_vector(store, vec, key)

\* MmapVectors::delete(key): set the flag byte in place; deleted_count is the
\* number of set flags; out of range is an error
MmapVectors_delete(store, del, key) ==
    IF key >= store.num_vectors
    THEN [res |-> Err("OutOfRange"), store |-> store, del |-> del]
    ELSE [res |-> Ok("unit"),
          store |-> [store EXCEPT !.deleted_count =
                        IF del[key + 1] = 0 THEN @ + 1 ELSE @],
          del |-> [del EXCEPT ![key + 1] = 1]]

(* --------------------------- MemmapVectorStorage ----------------------- *)
\* open with vectors_path and deleted_path handed over in the wrong order
open_swapped(vec, del, dim) == MmapVectors_open(del, vec, dim)

\* MemmapVectorStorage::open(path, dim): the mmap_store it is built with
open(vec, del, dim) == MmapVectors_open(vec, del, dim)

store == mmap_store.val

\* fn vector_dim
vector_dim == IF mmap_store.some THEN Ok(store.dim) ELSE Panic

\* vector_count without the subtraction of deleted_count
vector_count_no_sub ==
    IF ~mmap_store.some THEN Panic ELSE Ok(store.num_vectors)

\* fn vector_count: num_vectors - deleted_count on usize (a difference below
\* zero panics in a debug build and wraps in a release build; Panic stands
\* for both, no reachable state has one)
vector_count ==
    IF ~mmap_store.some THEN Panic
    ELSE IF store.deleted_count > store.num_vectors THEN Panic
    ELSE Ok(store.num_vectors - store.deleted_count)

\* fn deleted_count
deleted_count == IF mmap_store.some THEN Ok(store.deleted_count) ELSE Panic

\* fn get_vector: None without a map, no liveness check
get_vector(key) ==
    IF mmap_store.some THEN MmapVectors_get_vector(store, matrix_dat, key) ELSE None

\* iter_ids without its filter: every offset of 0..num_vectors
iter_ids_unfiltered ==
    IF ~mmap_store.some THEN Panic
    ELSE Ok([i \in 1..store.num_vectors |-> i - 1])

\* fn iter_ids: (0..num_vectors) without the deleted ones
iter_ids ==
    IF ~mmap_store.some THEN Panic
    ELSE Ok(SelectSeq([i \in 1..store.num_vectors |-> i - 1],
              LAMBDA id : ~MmapVectors_deleted(store, deleted_dat, id).val))

\* no update_from is in progress
NoFrame == [pc |-> "idle"]

TypeOK ==
    /\ alive \in BOOLEAN
    /\ aborted \in BOOLEAN
    /\ open_dim \in Dims
    /\ mmap_store.some \in BOOLEAN

Init ==
    /\ open_dim \in Dims
    /\ matrix_dat = <<>>
    /\ deleted_dat = <<>>
    /\ alive = TRUE
    /\ mmap_store = Some(open(<<>>, <<>>, open_dim).val)
    /\ aborted = FALSE
    /\ lastOp = [op |-> "open", arg |-> open_dim]
    /\ result = Ok("storage")
    /\ synced = FALSE
    /\ appended = 0
    /\ stored = <<>>
    /\ tombstones = {}
    /\ redelete = FALSE
    /\ scorer = None
    /\ filtered_scorer = None
    /\ iter_pc = "none"
    /\ pulled = <<>>
    /\ checked = <<>>
    /\ seen = <<>>
    /\ emitted = <<>>
    /\ frame = NoFrame
    /\ rw_lock = "free"
    /\ torn = {}
    /\ ids_history = "never"

Idle == [op |-> "idle", arg |-> "none"]
NoResult == [kind |-> "None", val |-> "none"]

\* the caller holds an instance and is between two calls
callable == alive /\ ~aborted /\ lastOp = Idle

\* the scorers borrowed from the storage and their iterator go out of scope
DropScorer ==
    /\ scorer' = None
    /\ filtered_scorer' = None
    /\ iter_pc' = "none"
    /\ pulled' = <<>>
    /\ checked' = <<>>
    /\ seen' = <<>>
    /\ emitted' = <<>>

\* the caller takes the result of the call that has returned, and lets go of
\* what it borrowed
Return ==
    /\ ~aborted
    /\ lastOp # Idle
    /\ iter_pc # "next"
    /\ frame = NoFrame
    /\ lastOp' = Idle
    /\ result' = NoResult
    /\ redelete' = FALSE
    /\ DropScorer
    /\ ids_history' = IF ids_history = "again" THEN "called" ELSE ids_history
    /\ UNCHANGED <<files, open_dim, alive, mmap_store, aborted, synced, appended, stored,
                   tombstones, locking>>

\* the history of the iter_ids calls after a mutation has returned res
AfterMutation(res) ==
    IF res.kind = "Ok" /\ ids_history \in {"called", "again"} THEN "mutated"
    ELSE ids_history

\* delete through mmap_store.take(): the map is moved out of the storage
delete_take(key) ==
    /\ callable
    /\ lastOp' = [op |-> "delete", arg |-> key]
    /\ IF ~mmap_store.some
       THEN /\ result' = Panic
            /\ aborted' = TRUE
            /\ UNCHANGED <<deleted_dat, mmap_store, synced, tombstones, redelete, ids_history>>
       ELSE LET d == MmapVectors_delete(store, deleted_dat, key) IN
            /\ result' = d.res
            /\ deleted_dat' = d.del
            /\ mmap_store' = None
            /\ synced' = (synced /\ d.res.kind # "Ok")
            /\ tombstones' = IF d.res.kind = "Ok" THEN tombstones \cup {key} ELSE tombstones
            /\ redelete' = (d.res.kind = "Ok" /\ key \in tombstones)
            /\ ids_history' = AfterMutation(d.res)
            /\ UNCHANGED aborted
    /\ UNCHANGED <<matrix_dat, open_dim, alive, appended, stored, scoring, locking>>

\* fn delete(key)
delete(key) ==
    /\ callable
    /\ lastOp' = [op |-> "delete", arg |-> key]
    /\ IF ~mmap_store.some
       THEN /\ result' = Panic
            /\ aborted' = TRUE
            /\ UNCHANGED <<deleted_dat, mmap_store, synced, tombstones, redelete, ids_history>>
       ELSE LET d == MmapVectors_delete(store, deleted_dat, key) IN
            /\ result' = d.res
            /\ deleted_dat' = d.del
            /\ mmap_store' = Some(d.store)
            /\ synced' = (synced /\ d.res.kind # "Ok")
            /\ tombstones' = IF d.res.kind = "Ok" THEN tombstones \cup {key} ELSE tombstones
            /\ redelete' = (d.res.kind = "Ok" /\ key \in tombstones)
            /\ ids_history' = AfterMutation(d.res)
            /\ UNCHANGED aborted
    /\ UNCHANGED <<matrix_dat, open_dim, alive, appended, stored, scoring, locking>>

(* ------------------------------ update_from ---------------------------- *)
\* other.iter_ids(): the live offsets of the source, ascending
other_iter_ids(other) ==
    SelectSeq([i \in 1..Len(other.vectors) |-> i - 1],
              LAMBDA id : ~other.deleted[id + 1])

\* other.get_vector(id).unwrap()
other_get_vector(other, id) == other.vectors[id + 1]

\* the vectors the loop of update_from reads, in the order it reads them
LiveVectors(other) ==
    LET ids == other_iter_ids(other) IN
    [i \in 1..Len(ids) |-> other_get_vector(other, ids[i])]

\* flags written as set bytes
flag_bytes_ones(start_index, end_index) == [i \in 1..(end_index - start_index) |-> 1]

\* let flags: Vec<u8> = vec![0; end_index - start_index]; vf_to_u8(&flags)
flag_bytes(start_index, end_index) == [i \in 1..(end_index - start_index) |-> 0]

\* the places where update_from can return early through `?`
FailPoints == {"none", "open_vectors", "write_vectors", "flush_vectors",
               "open_deleted", "write_deleted", "flush_deleted", "remap"}

\* the vector writes that can have succeeded before the failure `fail`
WritesBefore(other, fail) ==
    IF fail = "write_vectors" THEN 0..(Len(other_iter_ids(other)) - 1) ELSE {0}

\* the loop of update_from over every slot of the source, deleted or not
AppendVectors_all_slots(vec, other, written) ==
    vec \o Flatten([i \in 1..written |-> vf_to_u8(other.vectors[i])])

\* the bytes the vectors file holds when the first block ends: `written`
\* vectors of the source went through file.write
AppendVectors(vec, other, written) ==
    LET live == LiveVectors(other) IN
    vec \o Flatten([i \in 1..written |-> vf_to_u8(live[i])])

\* update_from with start_index taken from vector_count(): the deleted slots
\* are not counted
UpdateFromOutcome_live_start(other, fail, w) ==
    LET dim == vector_dim.val
        start_index == store.num_vectors - store.deleted_count
        n == Len(other_iter_ids(other))
        written == IF fail = "open_vectors" THEN 0
                   ELSE IF fail = "write_vectors" THEN w ELSE n
        end_index == start_index + written
        vec == AppendVectors(matrix_dat, other, written)
        flagsWritten == fail \in {"none", "flush_deleted", "remap"}
        del == IF flagsWritten
               THEN deleted_dat \o flag_bytes(start_index, end_index)
               ELSE deleted_dat
        remap == IF fail = "none" THEN MmapVectors_open(vec, del, dim)
                 ELSE Err("IoFailure")
    IN [matrix |-> vec,
        deleted |-> del,
        mmap |-> IF remap.kind = "Ok" THEN Some(remap.val) ELSE None,
        res |-> IF remap.kind = "Ok" THEN Ok(<<start_index, end_index>>) ELSE remap,
        flagged |-> IF flagsWritten THEN LiveVectors(other) ELSE <<>>]

\* the whole body of update_from on a mapped storage, with the I/O failure
\* `fail` (after `w` vector writes when it is a vector write that fails)
UpdateFromOutcome(other, fail, w) ==
    LET dim == vector_dim.val
        start_index == store.num_vectors
        n == Len(other_iter_ids(other))
        written == IF fail = "open_vectors" THEN 0
                   ELSE IF fail = "write_vectors" THEN w ELSE n
        end_index == start_index + written
        vec == AppendVectors(matrix_dat, other, written)
        flagsWritten == fail \in {"none", "flush_deleted", "remap"}
        del == IF flagsWritten
               THEN deleted_dat \o flag_bytes(start_index, end_index)
               ELSE deleted_dat
        remap == IF fail = "none" THEN MmapVectors_open(vec, del, dim)
                 ELSE Err("IoFailure")
    IN [matrix |-> vec,
        deleted |-> del,
        mmap |-> IF remap.kind = "Ok" THEN Some(remap.val) ELSE None,
        res |-> IF remap.kind = "Ok" THEN Ok(<<start_index, end_index>>) ELSE remap,
        flagged |-> IF flagsWritten THEN LiveVectors(other) ELSE <<>>]

\* fn update_from(other)
update_from(other, fail, w) ==
    /\ callable
    /\ lastOp' = [op |-> "update_from", arg |-> other]
    /\ IF ~mmap_store.some
       THEN /\ fail = "none"
            /\ result' = Panic
            /\ aborted' = TRUE
            /\ UNCHANGED <<files, mmap_store, synced, history>>
       ELSE /\ store.num_vectors + Len(other.vectors) <= MaxSlots
            /\ w \in WritesBefore(other, fail)
            /\ LET out == UpdateFromOutcome(other, fail, w) IN
               /\ matrix_dat' = out.matrix
               /\ deleted_dat' = out.deleted
               /\ mmap_store' = out.mmap
               /\ result' = out.res
               /\ synced' = FALSE
               /\ appended' = appended + Len(out.flagged)
               /\ stored' = stored \o out.flagged
               /\ ids_history' = AfterMutation(out.res)
            /\ UNCHANGED <<aborted, tombstones>>
    /\ UNCHANGED <<open_dim, alive, redelete, scoring, locking>>

(* -------------------------- unsupported mutations ---------------------- *)
\* fn put_vector: panic!("Can't put vector in mmap storage")
put_vector(vector) ==
    /\ callable
    /\ lastOp' = [op |-> "put_vector", arg |-> vector]
    /\ result' = Panic
    /\ aborted' = TRUE
    /\ UNCHANGED <<files, open_dim, alive, mmap_store, synced, history, redelete, scoring, locking>>

\* fn update_vector: panic!("Can't directly update vector in mmap storage")
update_vector(key, vector) ==
    /\ callable
    /\ lastOp' = [op |-> "update_vector", arg |-> <<key, vector>>]
    /\ result' = Panic
    /\ aborted' = TRUE
    /\ UNCHANGED <<files, open_dim, alive, mmap_store, synced, history, redelete, scoring, locking>>

(* ------------------------------- scoring ------------------------------- *)
\* Metric (Distance::Dot): preprocess leaves the query as it is, similarity
\* is the dot product
preprocess(vector) == vector
similarity(a, b) == SumSeq([i \in 1..Len(a) |-> a[i] * b[i]])

RemoveAt(s, i) == SubSeq(s, 1, i - 1) \o SubSeq(s, i + 1, Len(s))

\* peek_top_scores: the `top` highest-scoring entries, highest first, equal
\* scores in input order
RECURSIVE peek_top_scores(_, _)
peek_top_scores(scores, top) ==
    IF top = 0 \/ scores = <<>> THEN <<>>
    ELSE LET i == CHOOSE i \in 1..Len(scores) :
                    /\ \A j \in 1..Len(scores) : scores[j].score <= scores[i].score
                    /\ \A j \in 1..(i - 1) : scores[j].score < scores[i].score
         IN <<scores[i]>> \o peek_top_scores(RemoveAt(scores, i), top - 1)

\* .unwrap_or(true) on the Option<bool> of MmapVectors::deleted
unwrap_or_true(o) == IF o.some THEN o.val ELSE TRUE

\* score_points with a filter that keeps every candidate in range, deleted
\* or not
ScoreCandidates_keep_deleted(query, points) ==
    LET kept == SelectSeq(points,
                  LAMBDA point : MmapVectors_deleted(store, deleted_dat, point).some)
    IN [i \in 1..Len(kept) |->
          [idx |-> kept[i],
           score |-> similarity(query, MmapVectors_raw_vector(store, matrix_dat, kept[i]).val)]]

\* the filter + map of score_points over the mapped table
ScoreCandidates(query, points) ==
    LET kept == SelectSeq(points,
                  LAMBDA point : ~unwrap_or_true(MmapVectors_deleted(store, deleted_dat, point)))
    IN [i \in 1..Len(kept) |->
          [idx |-> kept[i],
           score |-> similarity(query, MmapVectors_raw_vector(store, matrix_dat, kept[i]).val)]]

\* fn score_points: the closures unwrap mmap_store only when a candidate is seen
score_points(vector, points, top) ==
    IF points # <<>> /\ ~mmap_store.some THEN Panic
    ELSE IF points = <<>> THEN Ok(peek_top_scores(<<>>, top))
    ELSE Ok(peek_top_scores(ScoreCandidates(preprocess(vector), points), top))

\* score_all that keeps the first `top` scores in offset order, unranked
score_all_first(vector, top) ==
    IF iter_ids.kind = "Panic" THEN Panic
    ELSE LET ids == iter_ids.val
             query == preprocess(vector)
             n == IF Len(ids) < top THEN Len(ids) ELSE top
         IN Ok([i \in 1..n |->
                  [idx |-> ids[i],
                   score |-> similarity(query,
                       MmapVectors_raw_vector(store, matrix_dat, ids[i]).val)]])

\* fn score_all: every id of iter_ids, scored
score_all(vector, top) ==
    IF iter_ids.kind = "Panic" THEN Panic
    ELSE LET ids == iter_ids.val
             query == preprocess(vector)
         IN Ok(peek_top_scores(
                 [i \in 1..Len(ids) |->
                    [idx |-> ids[i],
                     score |-> similarity(query,
                         MmapVectors_raw_vector(store, matrix_dat, ids[i]).val)]],
                 top))

\* fn score_internal: the query is get_vector(point).unwrap()
score_internal(point, points, top) ==
    IF ~get_vector(point).some THEN Panic
    ELSE score_points(get_vector(point).val, points, top)

\* fn flush: Ok without a map, MmapVectors::flush otherwise
flush(io_ok) ==
    IF ~mmap_store.some THEN Ok("unit")
    ELSE IF io_ok THEN Ok("unit") ELSE Err("IoFailure")

(* ------------------------------ read calls ----------------------------- *)
\* a call that leaves the storage as it is and returns res
ReadCall(op, arg, res) ==
    /\ callable
    /\ lastOp' = [op |-> op, arg |-> arg]
    /\ result' = res
    /\ aborted' = (res.kind = "Panic")
    /\ UNCHANGED <<files, open_dim, alive, mmap_store, synced, history, redelete, scoring, locking>>

Queries == VectorsOfDim(open_dim)
Candidates == SeqsUpTo(0..MaxSlots, MaxCand)

Call_vector_dim == ReadCall("vector_dim", "none", vector_dim)
Call_vector_count == ReadCall("vector_count", "none", vector_count)
Call_deleted_count == ReadCall("deleted_count", "none", deleted_count)
Call_get_vector ==
    callable /\ \E key \in 0..MaxSlots : ReadCall("get_vector", key, Ok(get_vector(key)))
Call_iter_ids ==
    /\ callable
    /\ lastOp' = [op |-> "iter_ids", arg |-> "none"]
    /\ result' = iter_ids
    /\ aborted' = (iter_ids.kind = "Panic")
    /\ ids_history' = IF iter_ids.kind # "Ok" THEN ids_history
                      ELSE IF ids_history = "mutated" THEN "again" ELSE "called"
    /\ UNCHANGED <<files, open_dim, alive, mmap_store, synced, appended, stored,
                   tombstones, redelete, scoring, locking>>
Call_flush ==
    callable /\ \E io_ok \in BOOLEAN :
        /\ callable
        /\ lastOp' = [op |-> "flush", arg |-> "none"]
        /\ result' = flush(io_ok)
        /\ synced' = (synced \/ (mmap_store.some /\ io_ok))
        /\ UNCHANGED <<files, open_dim, alive, mmap_store, aborted, history, redelete, scoring, locking>>
Call_score_points ==
    callable /\ \E vector \in Queries, points \in Candidates, top \in 1..MaxTop :
        ReadCall("score_points", <<vector, points, top>>, score_points(vector, points, top))
Call_score_all ==
    callable /\ \E vector \in Queries, top \in 1..MaxTop :
        ReadCall("score_all", <<vector, top>>, score_all(vector, top))
Call_score_internal ==
    callable /\ \E point \in 0..MaxSlots, points \in Candidates, top \in 1..MaxTop :
        ReadCall("score_internal", <<point, points, top>>, score_internal(point, points, top))

(* ------------------------------ drop, reopen --------------------------- *)
\* drop the instance (if any) and MemmapVectorStorage::open the same
\* directory with the same dimension
reopen(io_ok) ==
    /\ ~aborted
    /\ lastOp = Idle
    /\ lastOp' = [op |-> "reopen", arg |-> open_dim]
    /\ LET r == IF io_ok THEN open(matrix_dat, deleted_dat, open_dim)
                ELSE Err("IoFailure") IN
       /\ result' = IF r.kind = "Ok" THEN Ok("storage") ELSE r
       /\ alive' = (r.kind = "Ok")
       /\ mmap_store' = IF r.kind = "Ok" THEN Some(r.val) ELSE None
    /\ UNCHANGED <<files, open_dim, aborted, synced, history, redelete, scoring, locking>>

\* the calls a caller makes, with their arguments drawn from the model's domains
Call_update_from ==
    callable /\ \E other \in Sources, fail \in FailPoints :
                   \E w \in WritesBefore(other, fail) : update_from(other, fail, w)
Call_delete == callable /\ \E key \in 0..MaxSlots : delete(key)
Call_put_vector == callable /\ \E vector \in Queries : put_vector(vector)
Call_update_vector ==
    callable /\ \E key \in 0..MaxSlots, vector \in Queries : update_vector(key, vector)
Call_reopen == \E io_ok \in BOOLEAN : reopen(io_ok)

Next ==
    \/ Call_update_from
    \/ Call_delete
    \/ Call_put_vector
    \/ Call_update_vector
    \/ Call_vector_dim
    \/ Call_vector_count
    \/ Call_deleted_count
    \/ Call_get_vector
    \/ Call_iter_ids
    \/ Call_flush
    \/ Call_reopen
    \/ Return

\* the storage through its whole life, every I/O step of update_from and of
\* open free to fail
Spec == Init /\ [][Next]_vars

\* the sources whose vectors have the dimension of the storage
SameDimSources == {other \in Sources : other.dim = open_dim}

\* update_from from a source of the storage's dimension, with I/O that succeeds
Call_update_from_ok ==
    callable /\ \E other \in SameDimSources : update_from(other, "none", 0)

NextScore ==
    \/ Call_update_from_ok
    \/ Call_delete
    \/ Call_score_points
    \/ Call_score_all
    \/ Call_score_internal
    \/ Return

\* the storage under the scoring calls, filled and deleted from with I/O that
\* succeeds
SpecScore == Init /\ [][NextScore]_vars

(* ---------------------- raw scorer, filtered scorer --------------------- *)
\* fn raw_scorer(vector, distance): a MemmapRawScorer over the preprocessed
\* query, borrowing the map
raw_scorer(vector) ==
    /\ callable
    /\ lastOp' = [op |-> "raw_scorer", arg |-> vector]
    /\ IF mmap_store.some
       THEN /\ result' = Ok("scorer")
            /\ scorer' = Some([query |-> preprocess(vector)])
            /\ UNCHANGED aborted
       ELSE /\ result' = Panic
            /\ aborted' = TRUE
            /\ UNCHANGED scorer
    /\ UNCHANGED <<files, open_dim, alive, mmap_store, synced, history, redelete,
                   filtered_scorer, iter_pc, pulled, checked, seen, emitted, locking>>

\* the predicates a FilteredScorer is built with, each the set of offsets that
\* condition_checker.check accepts: none, the first offset only, all but the first
Predicates == {{}, {0}, 1..MaxSlots}
Filters == {None} \cup {Some(f) : f \in Predicates}

\* FilteredScorer { raw_scorer, condition_checker, filter }
FilteredScorer_new(filter) ==
    /\ ~aborted
    /\ lastOp.op = "raw_scorer"
    /\ scorer.some
    /\ ~filtered_scorer.some
    /\ iter_pc = "none"
    /\ filtered_scorer' = Some([filter |-> filter])
    /\ UNCHANGED <<files, open_dim, alive, mmap_store, aborted, lastOp, result, synced,
                   history, redelete, scorer, iter_pc, pulled, checked, seen, emitted,
                   locking>>

\* ConditionChecker::check(point_id, f)
check(point_id, f) == point_id \in f

\* the filter closure of the raw scorer without the deletion flag: in range
raw_filter_in_range(point) == MmapVectors_deleted(store, deleted_dat, point).some

\* the filter closure of MemmapRawScorer::score_points
raw_filter(point) == ~unwrap_or_true(MmapVectors_deleted(store, deleted_dat, point))

\* the map closure of MemmapRawScorer::score_points
raw_map(point) ==
    [idx |-> point,
     score |-> similarity(scorer.val.query,
                          MmapVectors_raw_vector(store, matrix_dat, point).val)]

\* RawScorer::check_point of the raw scorer: its liveness test
RawScorer_check_point(point_id) == raw_filter(point_id)

\* a predicate filter that lets every candidate through
predicate_filter_all(filter, id) == TRUE

\* the closure points_iterator.filter(|id| condition_checker.check(*id, f)) of
\* score_iterable_points; without a filter the candidates go straight to the
\* raw scorer
predicate_filter(filter, id) == IF filter.some THEN check(id, filter.val) ELSE TRUE

\* a chain with the raw scorer in front of the predicate filter
Admit_raw_first(filter, point) ==
    LET live == raw_filter(point)
        passes == live /\ predicate_filter(filter, point)
    IN [checked |-> live /\ filter.some,
        seen |-> TRUE,
        item |-> IF passes THEN Some(raw_map(point)) ELSE None]

\* what the iterator chain does with one candidate taken from points_iterator:
\* whether the predicate is consulted, whether the candidate reaches the raw
\* scorer, and the item that comes out (None when it is filtered away)
Admit(filter, point) ==
    LET passes == predicate_filter(filter, point)
        live == passes /\ raw_filter(point)
    IN [checked |-> filter.some,
        seen |-> passes,
        item |-> IF live THEN Some(raw_map(point)) ELSE None]

\* the filter field of the scorer driving the iterator (None for a bare raw scorer)
current_filter == IF filtered_scorer.some THEN filtered_scorer.val.filter ELSE None

\* check_point with || in place of &&
FilteredScorer_check_point_or(point_id) ==
    LET filter == current_filter IN
    IF ~filter.some
    THEN [res |-> RawScorer_check_point(point_id), checked |-> FALSE, seen |-> TRUE]
    ELSE LET c == check(point_id, filter.val) IN
         [res |-> c \/ RawScorer_check_point(point_id), checked |-> TRUE, seen |-> ~c]

\* FilteredScorer::check_point: the answer, and which of the two checks ran
FilteredScorer_check_point(point_id) ==
    LET filter == current_filter IN
    IF ~filter.some
    THEN [res |-> RawScorer_check_point(point_id), checked |-> FALSE, seen |-> TRUE]
    ELSE LET c == check(point_id, filter.val) IN
         [res |-> c /\ RawScorer_check_point(point_id), checked |-> TRUE, seen |-> c]

\* MemmapRawScorer::score_points called by a consumer of its own: the boxed
\* iterator is returned, nothing has been taken from `points`
MemmapRawScorer_score_points ==
    /\ ~aborted
    /\ lastOp.op = "raw_scorer"
    /\ scorer.some
    /\ ~filtered_scorer.some
    /\ iter_pc = "none"
    /\ iter_pc' = "idle"
    /\ UNCHANGED <<files, open_dim, alive, mmap_store, aborted, lastOp, result, synced,
                   history, redelete, scorer, filtered_scorer, pulled, checked, seen,
                   emitted, locking>>

\* FilteredScorer::score_iterable_points (and score_points over a slice): the
\* chain is built and for_each starts to drain it
FilteredScorer_score_iterable_points ==
    /\ ~aborted
    /\ lastOp.op = "raw_scorer"
    /\ filtered_scorer.some
    /\ iter_pc = "none"
    /\ iter_pc' = "next"
    /\ UNCHANGED <<files, open_dim, alive, mmap_store, aborted, lastOp, result, synced,
                   history, redelete, scorer, filtered_scorer, pulled, checked, seen,
                   emitted, locking>>

\* the consumer of the raw scorer's iterator asks for the next item
consumer_next ==
    /\ ~filtered_scorer.some
    /\ iter_pc = "idle"
    /\ iter_pc' = "next"
    /\ UNCHANGED <<files, open_dim, alive, mmap_store, aborted, lastOp, result, synced,
                   history, redelete, scorer, filtered_scorer, pulled, checked, seen,
                   emitted, locking>>

\* the consumer lets go of the iterator with candidates left in the source
consumer_drop ==
    /\ ~filtered_scorer.some
    /\ iter_pc = "idle"
    /\ iter_pc' = "dropped"
    /\ UNCHANGED <<files, open_dim, alive, mmap_store, aborted, lastOp, result, synced,
                   history, redelete, scorer, filtered_scorer, pulled, checked, seen,
                   emitted, locking>>

\* an iterator that takes a candidate whether or not a next() is running
demanded_always == iter_pc \in {"idle", "next"}

\* Filter::next / Map::next run only inside a next() of the consumer
demanded == iter_pc = "next"

\* what points_iterator.next() can return: any offset while the source is
\* shorter than the model's bound, or the end of the source
SourceNext ==
    {None} \cup (IF Len(pulled) < MaxCand THEN {Some(p) : p \in 0..MaxSlots} ELSE {})

\* one round of the running next(): a candidate is taken from the source and
\* goes through the chain; an item that comes out ends the next() (for_each
\* hands it to the sink and asks again), a filtered candidate lets it go on,
\* the end of the source ends the iterator
iterator_step(src) ==
    /\ demanded
    /\ IF ~src.some
       THEN /\ iter_pc' = "done"
            /\ UNCHANGED <<pulled, checked, seen, emitted>>
       ELSE LET a == Admit(current_filter, src.val) IN
            /\ pulled' = Append(pulled, src.val)
            /\ checked' = IF a.checked THEN Append(checked, src.val) ELSE checked
            /\ seen' = IF a.seen THEN Append(seen, src.val) ELSE seen
            /\ emitted' = IF a.item.some THEN Append(emitted, a.item.val) ELSE emitted
            /\ iter_pc' = IF a.item.some /\ ~filtered_scorer.some THEN "idle" ELSE "next"
    /\ UNCHANGED <<files, open_dim, alive, mmap_store, aborted, lastOp, result, synced,
                   history, redelete, scorer, filtered_scorer, locking>>

\* FilteredScorer::check_point(point_id) called on a scorer that is not iterating
check_point(point_id) ==
    /\ ~aborted
    /\ lastOp.op = "raw_scorer"
    /\ filtered_scorer.some
    /\ iter_pc = "none"
    /\ LET c == FilteredScorer_check_point(point_id) IN
       /\ lastOp' = [op |-> "check_point", arg |-> point_id]
       /\ result' = Ok(c.res)
       /\ checked' = IF c.checked THEN <<point_id>> ELSE <<>>
       /\ seen' = IF c.seen THEN <<point_id>> ELSE <<>>
    /\ UNCHANGED <<files, open_dim, alive, mmap_store, aborted, synced, history, redelete,
                   scorer, filtered_scorer, iter_pc, pulled, emitted, locking>>

Call_raw_scorer == callable /\ \E vector \in Queries : raw_scorer(vector)
Call_FilteredScorer_new == \E filter \in Filters : FilteredScorer_new(filter)
Call_iterator_step == demanded /\ \E src \in SourceNext : iterator_step(src)
Call_check_point ==
    (filtered_scorer.some /\ iter_pc = "none") /\ \E point_id \in 0..MaxSlots : check_point(point_id)

NextScorer ==
    \/ Call_update_from_ok
    \/ Call_delete
    \/ Call_raw_scorer
    \/ Call_FilteredScorer_new
    \/ MemmapRawScorer_score_points
    \/ FilteredScorer_score_iterable_points
    \/ consumer_next
    \/ consumer_drop
    \/ Call_iterator_step
    \/ Call_check_point
    \/ Return

\* the storage filled and deleted from with I/O that succeeds, and the raw
\* and filtered scorers built over it and driven candidate by candidate
SpecScorer == Init /\ [][NextScorer]_vars

(* --------------- update_from step by step, under the caller's lock ------ *)
\* how the caller wraps update_from in its read-write lock: the write lock
\* held across the whole call, or taken for the final remap only
LockScopes == {"whole", "remap"}

\* a caller that never takes the write lock at the start of the call
locked_from_start_never(scope) == FALSE

\* the write lock is taken before update_from starts
locked_from_start(scope) == scope = "whole"

\* update_from, lines 96-99: dim, start_index and end_index are read from the map
append_begin(other, scope) ==
    /\ callable
    /\ mmap_store.some
    /\ frame = NoFrame
    /\ rw_lock = "free"
    /\ store.num_vectors + Len(other.vectors) <= MaxSlots
    /\ lastOp' = [op |-> "update_from", arg |-> other]
    /\ frame' = [pc |-> "unmap", other |-> other, scope |-> scope,
                 dim |-> vector_dim.val,
                 start_index |-> store.num_vectors,
                 end_index |-> store.num_vectors]
    /\ rw_lock' = IF locked_from_start(scope) THEN "writer" ELSE "free"
    /\ UNCHANGED <<files, open_dim, alive, mmap_store, aborted, result, synced, history,
                   redelete, scoring, torn>>

\* line 101: self.mmap_store = None
append_unmap ==
    /\ frame.pc = "unmap"
    /\ mmap_store' = None
    /\ frame' = [frame EXCEPT !.pc = "vectors"]
    /\ UNCHANGED <<files, open_dim, alive, aborted, lastOp, result, synced, history,
                   redelete, scoring, rw_lock, torn>>

\* lines 103-119: every live vector of the source appended to the vectors file
append_vectors ==
    /\ frame.pc = "vectors"
    /\ LET n == Len(other_iter_ids(frame.other)) IN
       /\ matrix_dat' = AppendVectors(matrix_dat, frame.other, n)
       /\ frame' = [frame EXCEPT !.pc = "flags", !.end_index = @ + n]
    /\ UNCHANGED <<deleted_dat, open_dim, alive, mmap_store, aborted, lastOp, result,
                   synced, history, redelete, scoring, rw_lock, torn>>

\* lines 120-132: end_index - start_index zero flags appended to the deleted file
append_flags ==
    /\ frame.pc = "flags"
    /\ deleted_dat' = deleted_dat \o flag_bytes(frame.start_index, frame.end_index)
    /\ frame' = [frame EXCEPT !.pc = "remap"]
    /\ rw_lock' = IF frame.scope = "remap" THEN "writer" ELSE rw_lock
    /\ UNCHANGED <<matrix_dat, open_dim, alive, mmap_store, aborted, lastOp, result,
                   synced, history, redelete, scoring, torn>>

\* lines 134-140: the files are mapped again and the range is returned; the
\* caller releases its lock
append_remap ==
    /\ frame.pc = "remap"
    /\ LET remap == MmapVectors_open(matrix_dat, deleted_dat, frame.dim) IN
       /\ mmap_store' = IF remap.kind = "Ok" THEN Some(remap.val) ELSE None
       /\ result' = IF remap.kind = "Ok"
                    THEN Ok(<<frame.start_index, frame.end_index>>) ELSE remap
       /\ ids_history' = AfterMutation(remap)
    /\ appended' = appended + (frame.end_index - frame.start_index)
    /\ stored' = stored \o LiveVectors(frame.other)
    /\ synced' = FALSE
    /\ frame' = NoFrame
    /\ rw_lock' = "free"
    /\ UNCHANGED <<files, open_dim, alive, aborted, lastOp, tombstones, redelete,
                   scoring, torn>>

\* the storage as a reader finds it: without its map, or with records in the
\* vectors file that have no flag in the deleted file
TornView ==
    \/ ~mmap_store.some
    \/ Len(matrix_dat) # Len(deleted_dat) * (open_dim * ElementSize)

\* a read operation (get_vector, iter_ids, raw_scorer, score_points, score_all,
\* vector_count) of another thread, under the read lock
reader_read ==
    /\ alive
    /\ ~aborted
    /\ rw_lock = "free"
    /\ torn' = IF TornView /\ frame # NoFrame THEN torn \cup {frame.scope} ELSE torn
    /\ UNCHANGED <<files, open_dim, alive, mmap_store, aborted, lastOp, result, synced,
                   history, redelete, scoring, frame, rw_lock>>

Call_append_begin ==
    (callable /\ mmap_store.some) /\ \E other \in SameDimSources, scope \in LockScopes :
        append_begin(other, scope)

NextLock ==
    \/ Call_append_begin
    \/ append_unmap
    \/ append_vectors
    \/ append_flags
    \/ append_remap
    \/ reader_read
    \/ Call_delete
    \/ Return

\* one writer running update_from step by step under either lock scope, and
\* readers of other threads
SpecLock == Init /\ [][NextLock]_vars

(* ------------------------------ properties ----------------------------- *)
Offsets == 0..MaxSlots

\* what a caller can observe of a mapped storage: the counts, the live
\* offsets, the flag and the vector of every offset
Observed ==
    [count |-> vector_count,
     deleted |-> deleted_count,
     ids |-> iter_ids,
     flags |-> [k \in Offsets |-> MmapVectors_deleted(store, deleted_dat, k)],
     vectors |-> [k \in Offsets |-> get_vector(k)]]

InSeq(x, seq) == \E i \in 1..Len(seq) : seq[i] = x

IsMutation(op) == op \in {"update_from", "delete"}

\* the bytes per record of the storage
record_size == open_dim * ElementSize

C1_Counts ==
    mmap_store.some =>
        /\ vector_count.kind = "Ok"
        /\ deleted_count.kind = "Ok"
        /\ vector_count.val >= 0
        /\ vector_count.val + deleted_count.val = store.num_vectors
        /\ store.num_vectors = appended

C1_DeleteStep ==
    (/\ mmap_store.some
     /\ lastOp'.op = "delete"
     /\ result'.kind = "Ok"
     /\ ~MmapVectors_deleted(store, deleted_dat, lastOp'.arg).val)
    => vector_count'.val = vector_count.val - 1

\* C1: on a mapped storage count() + deleted_count() is the number of slots
\* ever appended (num_vectors), count() never goes below zero, and a delete
\* of a live slot lowers count() by exactly one.
C1_CountPlusDeleted == []C1_Counts /\ [][C1_DeleteStep]_vars

C1_Witness ==
    /\ mmap_store.some
    /\ lastOp.op = "delete"
    /\ result.kind = "Ok"
    /\ store.deleted_count = 2
    /\ store.num_vectors = 3

\* C2: once delete(k) has succeeded, in every later state k is not among
\* iter_ids(), is in no result of score_all or score_points (also when k is a
\* candidate), and get_vector(k) is still the vector stored at k.
C2_DeletedStaysHidden ==
    mmap_store.some =>
        \A k \in tombstones :
            /\ ~InSeq(k, iter_ids.val)
            /\ (lastOp.op \in {"score_points", "score_all"} /\ result.kind = "Ok")
                  => \A i \in 1..Len(result.val) : result.val[i].idx # k
            /\ get_vector(k) = Some(stored[k + 1])

C2_Witness ==
    /\ lastOp.op = "score_points"
    /\ result.kind = "Ok"
    /\ Len(result.val) = 1
    /\ Len(lastOp.arg[2]) = 2
    /\ lastOp.arg[2][1] \in tombstones
    /\ store.num_vectors > lastOp.arg[2][1] + 1

\* C3: a successful update_from(other) returns start..end with end - start
\* the live count of other, the storage ends at `end`, and get_vector(start + i)
\* is the i-th vector of other's live iteration; deleted vectors of other are
\* not copied.
C3_IngestCopiesLive ==
    (lastOp.op = "update_from" /\ result.kind = "Ok") =>
        LET other == lastOp.arg
            start == result.val[1]
            end == result.val[2]
            live == LiveVectors(other)
        IN /\ end - start = Cardinality({i \in 1..Len(other.vectors) : ~other.deleted[i]})
           /\ end - start = Len(live)
           /\ store.num_vectors = end
           /\ \A i \in 0..(end - start - 1) : get_vector(start + i) = Some(live[i + 1])

C3_Witness ==
    /\ lastOp.op = "update_from"
    /\ result.kind = "Ok"
    /\ result.val[1] > 0
    /\ result.val[2] - result.val[1] = 1
    /\ Len(lastOp.arg.vectors) = 2
    /\ lastOp.arg.deleted[1]
    /\ lastOp.arg.vectors[1] # lastOp.arg.vectors[2]

\* C4: when update_from fails with an I/O error the storage stays consistent:
\* one flag per record of the vectors file, and a map to serve the later calls.
C4_FailedIngestConsistent ==
    (lastOp.op = "update_from" /\ result.kind = "Err") =>
        /\ mmap_store.some
        /\ Len(matrix_dat) = Len(deleted_dat) * record_size

C5_Lengths ==
    (/\ IsMutation(lastOp.op)
     /\ result.kind = "Ok"
     /\ lastOp.op = "update_from" => lastOp.arg.dim = open_dim)
    => /\ mmap_store.some
       /\ Len(deleted_dat) = store.num_vectors
       /\ Len(deleted_dat) * record_size = Len(matrix_dat)

C5_IngestStep ==
    (/\ lastOp'.op = "update_from"
     /\ result'.kind = "Ok"
     /\ lastOp'.arg.dim = open_dim)
    => /\ (Len(deleted_dat') - Len(deleted_dat)) * record_size
             = Len(matrix_dat') - Len(matrix_dat)
       /\ \A i \in (Len(deleted_dat) + 1)..Len(deleted_dat') : deleted_dat'[i] = 0

\* C5: after every successful update_from (from a source of the same
\* dimension) and delete, the deleted file holds num_vectors flags, one per
\* record of the vectors file, and an update_from appends as many zero flags
\* as it appends records.
C5_FlagsMatchRecords == []C5_Lengths /\ [][C5_IngestStep]_vars

C5_Witness ==
    /\ lastOp.op = "update_from"
    /\ result.kind = "Ok"
    /\ lastOp.arg.dim = open_dim
    /\ result.val[2] - result.val[1] = 2
    /\ store.deleted_count = 1
    /\ open_dim = 2

\* C6: update_vector (and put_vector) on a mapped storage returns the typed
\* error Unsupported and does not panic.
C6_UnsupportedIsTypedError ==
    lastOp.op \in {"update_vector", "put_vector"} =>
        /\ result = Err("Unsupported")
        /\ ~aborted

\* C7: put_vector returns the next sequential offset, count() grows by one and
\* get_vector of that offset is the vector put.
C7_PutAppends ==
    lastOp.op = "put_vector" =>
        /\ result.kind = "Ok"
        /\ mmap_store.some
        /\ result.val = store.num_vectors - 1
        /\ get_vector(result.val) = Some(lastOp.arg)

\* C8: score_internal with a query offset that is deleted or out of range
\* returns the typed error NotFound: no panic, no scores computed from the
\* vector of a deleted slot.
C8_ScoreInternalNotFound ==
    (/\ lastOp.op = "score_internal"
     /\ mmap_store.some
     /\ \/ lastOp.arg[1] >= store.num_vectors
        \/ MmapVectors_deleted(store, deleted_dat, lastOp.arg[1]).val)
    => result = Err("NotFound")

C9_MapKept ==
    (lastOp.op = "delete" /\ result.kind = "Ok") => mmap_store.some

C9_DeleteStep ==
    (mmap_store.some /\ lastOp'.op = "delete") =>
        /\ lastOp'.arg < store.num_vectors => result'.kind = "Ok"
        /\ lastOp'.arg \in tombstones =>
              /\ result'.kind = "Ok"
              /\ mmap_store'.some
              /\ Observed' = Observed

\* C9: delete is idempotent: delete(k) of an in-range k succeeds and leaves
\* the map in place, and a delete(k) after a delete(k) succeeds again and
\* changes nothing of count(), deleted_count(), iter_ids() and get_vector.
C9_DeleteIdempotent == []C9_MapKept /\ [][C9_DeleteStep]_vars

C9_Witness ==
    /\ lastOp.op = "delete"
    /\ result.kind = "Ok"
    /\ mmap_store.some
    /\ store.num_vectors = 2
    /\ store.deleted_count = 1
    /\ redelete

C10_ReopenStep ==
    (mmap_store.some /\ synced /\ lastOp'.op = "reopen") =>
        /\ result'.kind = "Ok" \/ result' = Err("IoFailure")
        /\ result'.kind = "Ok" => Observed' = Observed

\* C10: after successful update_from and delete calls and a flush, dropping
\* the storage and opening the directory again with the same dimension gives
\* the same count(), deleted_count(), deletion flags and vectors.
C10_ReopenRoundTrip == [][C10_ReopenStep]_vars

C10_Witness ==
    /\ lastOp.op = "reopen"
    /\ result.kind = "Ok"
    /\ synced
    /\ store.num_vectors = 3
    /\ store.deleted_count = 1
    /\ open_dim = 2

\* the candidates of `points` that are in range and not deleted, by the
\* history of the storage
LiveOf(points) == SelectSeq(points, LAMBDA p : p < appended /\ p \notin tombstones)

\* the ScoredPointOffset of every one of `points`, against the vectors the
\* slots were given
ScoredOf(query, points) ==
    [i \in 1..Len(points) |->
       [idx |-> points[i], score |-> similarity(query, stored[points[i] + 1])]]

\* a consumer drives the iterator of the raw scorer's score_points
RawIterating == scorer.some /\ ~filtered_scorer.some /\ iter_pc # "none"

\* C11: whatever candidates the raw scorer's score_points has taken (with
\* duplicates, deleted and out-of-range offsets), it has emitted exactly one
\* (offset, similarity(query, stored vector)) per occurrence of a candidate in
\* range and not deleted, in the candidates' order, nothing for the others,
\* and has not aborted.
C11_RawScorerEmits ==
    RawIterating =>
        /\ ~aborted
        /\ emitted = ScoredOf(scorer.val.query, LiveOf(pulled))

C11_Witness ==
    /\ RawIterating
    /\ iter_pc = "done"
    /\ Len(pulled) = 2
    /\ pulled[1] \in tombstones
    /\ pulled[2] < appended
    /\ pulled[2] \notin tombstones
    /\ Len(emitted) = 1
    /\ emitted[1].score > 0

\* a is b with some of its entries left out
RECURSIVE IsSubSeq(_, _)
IsSubSeq(a, b) ==
    IF a = <<>> THEN TRUE
    ELSE IF b = <<>> THEN FALSE
    ELSE IF Head(a) = Head(b) THEN IsSubSeq(Tail(a), Tail(b))
    ELSE IsSubSeq(a, Tail(b))

\* the items the chain with `filter` lets out of the candidates `points`
RECURSIVE Delivered(_, _)
Delivered(filter, points) ==
    IF points = <<>> THEN <<>>
    ELSE LET a == Admit(filter, Head(points)) IN
         (IF a.item.some THEN <<a.item.val>> ELSE <<>>) \o Delivered(filter, Tail(points))

\* score_iterable_points of a FilteredScorer is running or has run
FilteredIterating == filtered_scorer.some /\ iter_pc \in {"next", "done"}

\* C12: what a filtered scorer with a predicate P has delivered to the sink is
\* a sub-sequence of what the scorer without a predicate delivers on the same
\* candidates, and every delivered offset satisfies check(offset, P) and is in
\* range and not deleted.
C12_FilteredIsSubset ==
    (FilteredIterating /\ current_filter.some) =>
        /\ IsSubSeq(emitted, Delivered(None, pulled))
        /\ \A i \in 1..Len(emitted) :
              /\ check(emitted[i].idx, current_filter.val)
              /\ emitted[i].idx < appended
              /\ emitted[i].idx \notin tombstones

C12_Witness ==
    /\ FilteredIterating
    /\ current_filter.some
    /\ iter_pc = "done"
    /\ Len(emitted) = 1
    /\ Len(Delivered(None, pulled)) = 2
    /\ emitted[1] = Delivered(None, pulled)[2]

Min(a, b) == IF a < b THEN a ELSE b

\* how many entries of seq satisfy Test
CountIn(seq, Test(_)) == Cardinality({i \in 1..Len(seq) : Test(seq[i])})

\* res is a ranking of the `top` best of the scored entries
IsTopOf(res, scored, top) ==
    /\ Len(res) = Min(top, Len(scored))
    /\ \A i \in 1..(Len(res) - 1) : res[i].score >= res[i + 1].score
    /\ \A i \in 1..Len(res) :
          CountIn(res, LAMBDA e : e = res[i]) <= CountIn(scored, LAMBDA e : e = res[i])
    /\ \A i \in 1..Len(res) :
          CountIn(scored, LAMBDA e : e.score > res[i].score)
             = CountIn(res, LAMBDA e : e.score > res[i].score)

\* the live offsets of the storage, ascending, by its history
LiveOffsets == LiveOf([i \in 1..appended |-> i - 1])

\* C13: score_all and score_points return exactly min(top, n) entries, n the
\* number of live in-range offsets scored (every live offset for score_all,
\* the live candidate occurrences for score_points), in non-increasing score
\* order, each one of the scored entries, with no entry of a higher score
\* left out.
C13_TopK ==
    /\ (lastOp.op = "score_all" /\ result.kind = "Ok") =>
          IsTopOf(result.val, ScoredOf(lastOp.arg[1], LiveOffsets), lastOp.arg[2])
    /\ (lastOp.op = "score_points" /\ result.kind = "Ok") =>
          IsTopOf(result.val, ScoredOf(lastOp.arg[1], LiveOf(lastOp.arg[2])), lastOp.arg[3])

C13_Witness ==
    /\ lastOp.op = "score_all"
    /\ result.kind = "Ok"
    /\ lastOp.arg[2] = 2
    /\ Len(LiveOffsets) = 3
    /\ Len(result.val) = 2
    /\ result.val[1].idx = 1
    /\ result.val[1].score > result.val[2].score

\* C14: a returned iter_ids() is strictly ascending (so finite and without
\* repetition) and holds exactly the offsets below num_vectors whose flag is
\* clear; a call made after a delete or update_from that followed an earlier
\* call reflects the deletes and the new slots: its offsets are those appended
\* so far and not deleted.
C14_IterIdsLive ==
    (lastOp.op = "iter_ids" /\ result.kind = "Ok") =>
        LET ids == result.val IN
        /\ \A i \in 1..(Len(ids) - 1) : ids[i] < ids[i + 1]
        /\ {ids[i] : i \in 1..Len(ids)}
              = {k \in 0..(store.num_vectors - 1) : deleted_dat[k + 1] = 0}
        /\ ids = LiveOffsets
        /\ Len(ids) = vector_count.val

C14_Witness ==
    /\ lastOp.op = "iter_ids"
    /\ result.kind = "Ok"
    /\ ids_history = "again"
    /\ result.val = <<0, 2>>
    /\ appended = 3

\* the deletion flag of offset k, as the map reads it
Flag(k) == MmapVectors_deleted(store, deleted_dat, k)

C15_Step ==
    (mmap_store.some /\ mmap_store'.some /\ lastOp'.op # "reopen") =>
        /\ store'.num_vectors >= store.num_vectors
        /\ \A k \in 0..(store.num_vectors - 1) : get_vector(k)' = get_vector(k)
        /\ (lastOp'.op = "update_from" /\ result'.kind = "Ok") =>
              /\ result'.val = <<store.num_vectors, store'.num_vectors>>
              /\ \A k \in 0..(store.num_vectors - 1) : Flag(k)' = Flag(k)
        /\ lastOp'.op = "delete" =>
              /\ store'.num_vectors = store.num_vectors
              /\ matrix_dat' = matrix_dat
              /\ \A k \in (0..(store.num_vectors - 1)) \ {lastOp'.arg} : Flag(k)' = Flag(k)
        /\ lastOp'.op \notin {"update_from", "delete"} =>
              /\ store'.num_vectors = store.num_vectors
              /\ \A k \in 0..(store.num_vectors - 1) : Flag(k)' = Flag(k)

\* C15: offsets are never reused and existing slots never disturbed: on a
\* mapped storage num_vectors grows only by an update_from, which returns
\* the range from the previous num_vectors (live and deleted slots) to the
\* new one, so the ranges of successive ingests are contiguous and disjoint;
\* an update_from leaves the vector and the flag of every earlier offset as
\* they were, and delete(k) changes nothing but the flag of k.
C15_OffsetsNotReused == [][C15_Step]_vars

C15_Witness ==
    /\ lastOp.op = "update_from"
    /\ result.kind = "Ok"
    /\ result.val = <<2, 3>>
    /\ Flag(0) = Some(TRUE)
    /\ Flag(1) = Some(FALSE)
    /\ get_vector(0) # get_vector(2)

\* the candidates of `points` that the predicate of `filter` accepts (all of
\* them without a predicate)
PassingOf(filter, points) ==
    SelectSeq(points, LAMBDA p : ~filter.some \/ check(p, filter.val))

C16_Sink ==
    FilteredIterating =>
        /\ emitted = ScoredOf(scorer.val.query, LiveOf(PassingOf(current_filter, pulled)))
        /\ seen = PassingOf(current_filter, pulled)
        /\ checked = IF current_filter.some THEN pulled ELSE <<>>

C16_SinkStep ==
    (FilteredIterating /\ FilteredIterating') =>
        \/ emitted' = emitted
        \/ /\ Len(pulled') = Len(pulled) + 1
           /\ Len(emitted') = Len(emitted) + 1
           /\ SubSeq(emitted', 1, Len(emitted)) = emitted
           /\ emitted'[Len(emitted')].idx = pulled'[Len(pulled')]

\* C16: the filtered scorer hands the sink exactly one item per occurrence of
\* a candidate that passes the predicate (when one is set) and is live, none
\* for the others, in the candidates' order, one candidate at a time; with a
\* predicate set every candidate is checked against it first and only those
\* that pass reach the raw scorer.
C16_SinkOncePerAdmissible == []C16_Sink /\ [][C16_SinkStep]_vars

C16_Witness ==
    /\ FilteredIterating
    /\ iter_pc = "done"
    /\ current_filter.some
    /\ Len(pulled) = 2
    /\ LiveOf(pulled) = pulled
    /\ checked = pulled
    /\ seen = <<pulled[2]>>
    /\ Len(emitted) = 1
    /\ emitted[1].idx = pulled[2]

\* C17: FilteredScorer::check_point(offset) is true exactly when (no predicate
\* is set or check(offset, predicate) holds) and the offset is in range and
\* not deleted; with a predicate that rejects the offset the raw scorer's
\* check is not consulted; and it is true exactly when score_iterable_points
\* delivers the offset when it is a candidate.
C17_CheckPoint ==
    (lastOp.op = "check_point" /\ result.kind = "Ok") =>
        LET point_id == lastOp.arg
            filter == current_filter
            passes == ~filter.some \/ check(point_id, filter.val)
        IN /\ result.val = (passes /\ point_id < appended /\ point_id \notin tombstones)
           /\ ~passes => seen = <<>>
           /\ passes => seen = <<point_id>>
           /\ result.val = (Delivered(filter, <<point_id>>) # <<>>)

C17_Witness ==
    /\ lastOp.op = "check_point"
    /\ result = Ok(FALSE)
    /\ current_filter.some
    /\ LiveOf(<<lastOp.arg>>) = <<lastOp.arg>>
    /\ checked = <<lastOp.arg>>
    /\ seen = <<>>
    /\ tombstones # {}

C18_Position ==
    (RawIterating /\ iter_pc \in {"idle", "dropped"} /\ emitted # <<>>) =>
        /\ Len(LiveOf(pulled)) = Len(emitted)
        /\ LiveOf(<<pulled[Len(pulled)]>>) # <<>>

C18_PullStep ==
    /\ (iter_pc = "none" /\ RawIterating') => pulled' = <<>>
    /\ (RawIterating /\ RawIterating') =>
          /\ iter_pc # "next" => (pulled' = pulled /\ emitted' = emitted)
          /\ iter_pc = "next" =>
                \/ pulled' = pulled /\ emitted' = emitted /\ iter_pc' = "done"
                \/ /\ Len(pulled') = Len(pulled) + 1
                   /\ SubSeq(pulled', 1, Len(pulled)) = pulled
                   /\ Len(emitted') <= Len(emitted) + 1
          /\ iter_pc = "dropped" => iter_pc' = "dropped"

\* C18: the raw scorer's score_points is a streaming transform: building the
\* iterator takes nothing from the source, a candidate is taken only while a
\* next() of the consumer is running and one at a time, when the j-th item
\* has been handed over the last candidate taken is the j-th admissible one,
\* and once the consumer has stopped asking nothing more is taken.
C18_Streaming == []C18_Position /\ [][C18_PullStep]_vars

C18_Witness ==
    /\ RawIterating
    /\ iter_pc = "dropped"
    /\ Len(emitted) = 1
    /\ Len(pulled) = 1
    /\ Len(pulled) < MaxCand
    /\ tombstones # {}

C19_Step ==
    (/\ mmap_store.some
     /\ lastOp'.op = "update_from"
     /\ lastOp'.arg.dim # open_dim
     /\ result' # Err("IoFailure"))
    => \/ /\ result'.kind = "Err"
          /\ matrix_dat' = matrix_dat
          /\ deleted_dat' = deleted_dat
          /\ mmap_store' = mmap_store
       \/ /\ mmap_store'.some
          /\ Len(matrix_dat') % record_size = 0
          /\ Len(matrix_dat') = store'.num_vectors * record_size
          /\ Len(deleted_dat') = store'.num_vectors
          /\ open(matrix_dat', deleted_dat', open_dim).kind = "Ok"

\* C19: update_from with a source of another dimension (every I/O step
\* succeeding) never corrupts the storage: either it fails with a typed error
\* and files and map are as before, or afterwards the vectors file is a whole
\* number of records, num_vectors of them, with as many flags, and the
\* directory opens again without a corruption failure.
C19_MismatchNeverCorrupts == [][C19_Step]_vars

====
